---- MODULE Spec2Model ----
(***************************************************************************)
(* The operand parser and plan resolver of optdd.c (a reimplementation of  *)
(* dd): main, usage, operand_matches and scanargs.                         *)
(*                                                                         *)
(* C strings are sequences of one-character strings; the terminating NUL   *)
(* is the position after the last element.  Bit masks are sets of the     *)
(* names of their bits (every bit of the enums is distinct), so | is       *)
(* \cup, & is \cap and &~ is \.  uintmax_t and size_t are UintBits wide.   *)
(* argv is indexed as in C from 1; argv[0], the program name, is left out, *)
(* so argc = Len(argv) + 1.                                                *)
(***************************************************************************)
EXTENDS Integers, Sequences, FiniteSets, TLC

\* ------------------------------------------------------------- bounds
\* The width of uintmax_t and size_t in the model (64 in the build).
UintBits == 12
\* The largest number of arguments after argv[0].
MaxArgs == 2

\* ---------------------------------------------------------- constants
UINTMAX_MAX == 2^UintBits - 1
SIZE_MAX == UINTMAX_MAX
SSIZE_MAX == 2^(UintBits - 1) - 1
\* sysconf (_SC_PAGESIZE), scaled with the integer width.
page_size == 16
INPUT_BLOCK_SLOP == 2 * page_size - 1
OUTPUT_BLOCK_SLOP == page_size - 1
Min(a, b) == IF a < b THEN a ELSE b
MAX_BLOCKSIZE(slop) == Min(SIZE_MAX - slop, SSIZE_MAX)
DEFAULT_BLOCKSIZE == 512

\* (uintmax_t) -1, the value of count that stands for "no count given".
COUNT_UNSET == UINTMAX_MAX

\* ------------------------------------------------------------ strings
NUL == "\\0"
\* NULL + 1: what val++ leaves in val when strchr found no '='.
BadPtr == <<"NULL+1">>

CharAt(str, k) == IF k <= Len(str) THEN str[k] ELSE NUL

\* strchr (name, '='): the index of the first '=' in name, 0 for NULL.
RECURSIVE strchr_from(_, _, _)
strchr_from(str, c, k) ==
  IF k > Len(str) THEN 0
  ELSE IF str[k] = c THEN k
  ELSE strchr_from(str, c, k + 1)

strchr(str, c) == strchr_from(str, c, 1)

\* The loop of operand_matches: both pointers advance while the bytes agree.
RECURSIVE operand_matches_from(_, _, _, _)
operand_matches_from(str, pattern, delim, k) ==
  IF k <= Len(pattern)
  THEN IF CharAt(str, k) # pattern[k]
       THEN FALSE
       ELSE operand_matches_from(str, pattern, delim, k + 1)
  ELSE CharAt(str, k) = NUL \/ CharAt(str, k) = delim

operand_matches(str, pattern, delim) ==
  operand_matches_from(str, pattern, delim, 1)

operand_is(operand, name) == operand_matches(operand, name, "=")

\* The operand names scanargs tests, in the order of its if-chain.
N_if == <<"i", "f">>
N_of == <<"o", "f">>
N_conv == <<"c", "o", "n", "v">>
N_iflag == <<"i", "f", "l", "a", "g">>
N_oflag == <<"o", "f", "l", "a", "g">>
N_status == <<"s", "t", "a", "t", "u", "s">>
N_ibs == <<"i", "b", "s">>
N_obs == <<"o", "b", "s">>
N_bs == <<"b", "s">>
N_cbs == <<"c", "b", "s">>
N_skip == <<"s", "k", "i", "p">>
N_seek == <<"s", "e", "e", "k">>
N_count == <<"c", "o", "u", "n", "t">>

\* ------------------------------------------------------ symbol tables
\* A variant of conversions in which ascii, ebcdic and ibm imply no record
\* conversion.
conversions_nothing_implied ==
  << [symbol |-> <<"a","s","c","i","i">>, value |-> {"C_ASCII", "C_TWOBUFS"}],
     [symbol |-> <<"e","b","c","d","i","c">>, value |-> {"C_EBCDIC", "C_TWOBUFS"}],
     [symbol |-> <<"i","b","m">>, value |-> {"C_IBM", "C_TWOBUFS"}],
     [symbol |-> <<"b","l","o","c","k">>, value |-> {"C_BLOCK", "C_TWOBUFS"}],
     [symbol |-> <<"u","n","b","l","o","c","k">>, value |-> {"C_UNBLOCK", "C_TWOBUFS"}],
     [symbol |-> <<"l","c","a","s","e">>, value |-> {"C_LCASE", "C_TWOBUFS"}],
     [symbol |-> <<"u","c","a","s","e">>, value |-> {"C_UCASE", "C_TWOBUFS"}],
     [symbol |-> <<"s","p","a","r","s","e">>, value |-> {"C_SPARSE"}],
     [symbol |-> <<"s","w","a","b">>, value |-> {"C_SWAB", "C_TWOBUFS"}],
     [symbol |-> <<"n","o","e","r","r","o","r">>, value |-> {"C_NOERROR"}],
     [symbol |-> <<"n","o","c","r","e","a","t">>, value |-> {"C_NOCREAT"}],
     [symbol |-> <<"e","x","c","l">>, value |-> {"C_EXCL"}],
     [symbol |-> <<"n","o","t","r","u","n","c">>, value |-> {"C_NOTRUNC"}],
     [symbol |-> <<"s","y","n","c">>, value |-> {"C_SYNC"}],
     [symbol |-> <<"f","d","a","t","a","s","y","n","c">>, value |-> {"C_FDATASYNC"}],
     [symbol |-> <<"f","s","y","n","c">>, value |-> {"C_FSYNC"}] >>

\* The table of conv= symbols, lines 66-84.
conversions ==
  << [symbol |-> <<"a","s","c","i","i">>, value |-> {"C_ASCII", "C_UNBLOCK", "C_TWOBUFS"}],
     [symbol |-> <<"e","b","c","d","i","c">>, value |-> {"C_EBCDIC", "C_BLOCK", "C_TWOBUFS"}],
     [symbol |-> <<"i","b","m">>, value |-> {"C_IBM", "C_BLOCK", "C_TWOBUFS"}],
     [symbol |-> <<"b","l","o","c","k">>, value |-> {"C_BLOCK", "C_TWOBUFS"}],
     [symbol |-> <<"u","n","b","l","o","c","k">>, value |-> {"C_UNBLOCK", "C_TWOBUFS"}],
     [symbol |-> <<"l","c","a","s","e">>, value |-> {"C_LCASE", "C_TWOBUFS"}],
     [symbol |-> <<"u","c","a","s","e">>, value |-> {"C_UCASE", "C_TWOBUFS"}],
     [symbol |-> <<"s","p","a","r","s","e">>, value |-> {"C_SPARSE"}],
     [symbol |-> <<"s","w","a","b">>, value |-> {"C_SWAB", "C_TWOBUFS"}],
     [symbol |-> <<"n","o","e","r","r","o","r">>, value |-> {"C_NOERROR"}],
     [symbol |-> <<"n","o","c","r","e","a","t">>, value |-> {"C_NOCREAT"}],
     [symbol |-> <<"e","x","c","l">>, value |-> {"C_EXCL"}],
     [symbol |-> <<"n","o","t","r","u","n","c">>, value |-> {"C_NOTRUNC"}],
     [symbol |-> <<"s","y","n","c">>, value |-> {"C_SYNC"}],
     [symbol |-> <<"f","d","a","t","a","s","y","n","c">>, value |-> {"C_FDATASYNC"}],
     [symbol |-> <<"f","s","y","n","c">>, value |-> {"C_FSYNC"}] >>

\* The table of iflag= and oflag= symbols (declared outside optdd.c).
flags ==
  << [symbol |-> <<"a","p","p","e","n","d">>, value |-> {"O_APPEND"}],
     [symbol |-> <<"d","i","r","e","c","t">>, value |-> {"O_DIRECT"}],
     [symbol |-> <<"d","i","r","e","c","t","o","r","y">>, value |-> {"O_DIRECTORY"}],
     [symbol |-> <<"d","s","y","n","c">>, value |-> {"O_DSYNC"}],
     [symbol |-> <<"s","y","n","c">>, value |-> {"O_SYNC"}],
     [symbol |-> <<"f","u","l","l","b","l","o","c","k">>, value |-> {"O_FULLBLOCK"}],
     [symbol |-> <<"n","o","n","b","l","o","c","k">>, value |-> {"O_NONBLOCK"}],
     [symbol |-> <<"n","o","a","t","i","m","e">>, value |-> {"O_NOATIME"}],
     [symbol |-> <<"n","o","c","a","c","h","e">>, value |-> {"O_NOCACHE"}],
     [symbol |-> <<"n","o","c","t","t","y">>, value |-> {"O_NOCTTY"}],
     [symbol |-> <<"n","o","f","o","l","l","o","w">>, value |-> {"O_NOFOLLOW"}],
     [symbol |-> <<"c","o","u","n","t","_","b","y","t","e","s">>, value |-> {"O_COUNT_BYTES"}],
     [symbol |-> <<"s","k","i","p","_","b","y","t","e","s">>, value |-> {"O_SKIP_BYTES"}],
     [symbol |-> <<"s","e","e","k","_","b","y","t","e","s">>, value |-> {"O_SEEK_BYTES"}] >>

\* The table of status= symbols (declared outside optdd.c).
statuses ==
  << [symbol |-> <<"n","o","n","e">>, value |-> {"STATUS_NONE"}],
     [symbol |-> <<"n","o","x","f","e","r">>, value |-> {"STATUS_NOXFER"}],
     [symbol |-> <<"p","r","o","g","r","e","s","s">>, value |-> {"STATUS_PROGRESS"}] >>

STATUS_DEFAULT == {"STATUS_DEFAULT"}

\* ------------------------------------------------------ parse_symbols
\* The tokens of a comma-separated string, empty ones included.
RECURSIVE split_commas(_, _)
split_commas(str, cur) ==
  IF str = <<>> THEN <<cur>>
  ELSE IF Head(str) = "," THEN <<cur>> \o split_commas(Tail(str), <<>>)
  ELSE split_commas(Tail(str), Append(cur, Head(str)))

\* The entries of table whose symbol is the whole token.
lookup(table, token) ==
  {k \in 1..Len(table) : table[k].symbol = token}

\* parse_symbols (str, table, exclusive, msg): [ok, value].  ok is FALSE when
\* a token is empty or in no entry, or when exclusive and there is more than
\* one token; the caller's diagnostic is then fatal.
parse_symbols(str, table, exclusive) ==
  LET toks == split_commas(str, <<>>)
      bad == \E k \in 1..Len(toks) : lookup(table, toks[k]) = {}
  IN IF bad \/ (exclusive /\ Len(toks) # 1)
     THEN [ok |-> FALSE, value |-> {}]
     ELSE [ok |-> TRUE,
           value |-> UNION {table[e].value :
                            e \in UNION {lookup(table, toks[k]) : k \in 1..Len(toks)}}]

\* ------------------------------------------------------ parse_integer
Digits == {"0", "1", "2", "3", "4", "5", "6", "7", "8", "9"}
DigitVal(c) ==
  CASE c = "0" -> 0 [] c = "1" -> 1 [] c = "2" -> 2 [] c = "3" -> 3
    [] c = "4" -> 4 [] c = "5" -> 5 [] c = "6" -> 6 [] c = "7" -> 7
    [] c = "8" -> 8 [] c = "9" -> 9

LONGINT_OK == "LONGINT_OK"
LONGINT_INVALID == "LONGINT_INVALID"
LONGINT_OVERFLOW == "LONGINT_OVERFLOW"

\* a * b in uintmax_t with overflow detection: [n, err].
checked_mul(a, b) ==
  IF b # 0 /\ a > UINTMAX_MAX \div b
  THEN [n |-> 0, err |-> LONGINT_OVERFLOW]
  ELSE [n |-> a * b, err |-> LONGINT_OK]

\* The leading decimal digits of str from position k, accumulated into acc:
\* [n, err, next], next the position of the first byte that is no digit.
RECURSIVE scan_digits(_, _, _, _)
scan_digits(str, k, acc, err) ==
  IF k <= Len(str) /\ str[k] \in Digits
  THEN LET d == DigitVal(str[k])
       IN IF err = LONGINT_OVERFLOW \/ acc > (UINTMAX_MAX - d) \div 10
          THEN scan_digits(str, k + 1, 0, LONGINT_OVERFLOW)
          ELSE scan_digits(str, k + 1, acc * 10 + d, err)
  ELSE [n |-> acc, err |-> err, next |-> k]

\* The multiplier suffix at position k of str: [mult, len], len = 0 for none.
\* Two-letter suffixes are matched before their one-letter counterparts; a
\* multiplier too large for a model integer is UINTMAX_MAX + 1 (it overflows
\* every product with a nonzero number).
TooBig == UINTMAX_MAX + 1
suffix_at(str, k) ==
  LET c == CharAt(str, k)
      d == CharAt(str, k + 1)
  IN CASE c = "c" -> [mult |-> 1, len |-> 1]
       [] c = "w" -> [mult |-> 2, len |-> 1]
       [] c = "b" -> [mult |-> 512, len |-> 1]
       [] c = "k" /\ d = "B" -> [mult |-> 1000, len |-> 2]
       [] c = "K" -> [mult |-> 1024, len |-> 1]
       [] c = "M" /\ d = "B" -> [mult |-> TooBig, len |-> 2]
       [] c = "M" /\ d # "B" -> [mult |-> TooBig, len |-> 1]
       [] c = "G" /\ d = "B" -> [mult |-> TooBig, len |-> 2]
       [] c = "G" /\ d # "B" -> [mult |-> TooBig, len |-> 1]
       [] OTHER -> [mult |-> 1, len |-> 0]

\* parse_integer (str, &invalid): [n, err].  An unsigned decimal, an optional
\* suffix multiplier, then optionally x, X or * and a second such integer
\* (the product).  n is 0 whenever err is not LONGINT_OK.
RECURSIVE parse_integer_from(_, _)
parse_integer_from(str, k) ==
  LET ds == scan_digits(str, k, 0, LONGINT_OK)
      sf == suffix_at(str, ds.next)
      scaled == IF ds.err # LONGINT_OK THEN [n |-> 0, err |-> ds.err]
                ELSE checked_mul(ds.n, sf.mult)
      after == ds.next + sf.len
      c == CharAt(str, after)
  IN IF ds.next = k
     THEN [n |-> 0, err |-> LONGINT_INVALID]
     ELSE IF c = NUL
     THEN scaled
     ELSE IF c \in {"x", "X", "*"}
     THEN LET m == parse_integer_from(str, after + 1)
          IN IF m.err # LONGINT_OK THEN [n |-> 0, err |-> m.err]
             ELSE IF scaled.err # LONGINT_OK THEN scaled
             ELSE checked_mul(scaled.n, m.n)
     ELSE [n |-> 0, err |-> LONGINT_INVALID]

parse_integer(str) == parse_integer_from(str, 1)

\* ------------------------------------------------------ program state
VARIABLES
  argv,                 \* the arguments after argv[0]
  optind,               \* getopt's index of the first operand
  pc,                   \* the statement the process is at
  proc,                 \* "running", "exited" or "killed"
  exit_status,          \* the argument of exit or main's return value
  stdout, stderr,       \* the lines written so far
  i,                    \* scanargs' loop index
  blocksize, count, skip, seek,          \* scanargs' locals
  input_file, output_file,
  conversions_mask, input_flags, output_flags, status_level,
  input_blocksize, output_blocksize, conversion_blocksize,
  skip_records, skip_bytes, max_records, max_bytes,
  seek_records, seek_bytes,
  warn_partial_read, iread_fnc, i_nocache, o_nocache

vars ==
  <<argv, optind, pc, proc, exit_status, stdout, stderr, i, blocksize, count, skip,
    seek, input_file, output_file, conversions_mask, input_flags,
    output_flags, status_level, input_blocksize, output_blocksize,
    conversion_blocksize, skip_records, skip_bytes, max_records, max_bytes,
    seek_records, seek_bytes, warn_partial_read, iread_fnc, i_nocache,
    o_nocache>>

\* What scanargs reads and writes, as one record.
State ==
  [pc |-> pc, proc |-> proc, exit_status |-> exit_status, stderr |-> stderr, i |-> i,
   blocksize |-> blocksize, count |-> count, skip |-> skip, seek |-> seek,
   input_file |-> input_file, output_file |-> output_file,
   conversions_mask |-> conversions_mask, input_flags |-> input_flags,
   output_flags |-> output_flags, status_level |-> status_level,
   input_blocksize |-> input_blocksize,
   output_blocksize |-> output_blocksize,
   conversion_blocksize |-> conversion_blocksize,
   skip_records |-> skip_records, skip_bytes |-> skip_bytes,
   max_records |-> max_records, max_bytes |-> max_bytes,
   seek_records |-> seek_records, seek_bytes |-> seek_bytes,
   warn_partial_read |-> warn_partial_read, iread_fnc |-> iread_fnc,
   i_nocache |-> i_nocache, o_nocache |-> o_nocache]

Load(t) ==
  /\ pc' = t.pc
  /\ proc' = t.proc
  /\ exit_status' = t.exit_status
  /\ stderr' = t.stderr
  /\ i' = t.i
  /\ blocksize' = t.blocksize
  /\ count' = t.count
  /\ skip' = t.skip
  /\ seek' = t.seek
  /\ input_file' = t.input_file
  /\ output_file' = t.output_file
  /\ conversions_mask' = t.conversions_mask
  /\ input_flags' = t.input_flags
  /\ output_flags' = t.output_flags
  /\ status_level' = t.status_level
  /\ input_blocksize' = t.input_blocksize
  /\ output_blocksize' = t.output_blocksize
  /\ conversion_blocksize' = t.conversion_blocksize
  /\ skip_records' = t.skip_records
  /\ skip_bytes' = t.skip_bytes
  /\ max_records' = t.max_records
  /\ max_bytes' = t.max_bytes
  /\ seek_records' = t.seek_records
  /\ seek_bytes' = t.seek_bytes
  /\ warn_partial_read' = t.warn_partial_read
  /\ iread_fnc' = t.iread_fnc
  /\ i_nocache' = t.i_nocache
  /\ o_nocache' = t.o_nocache

\* The file-scope variables before main runs, and scanargs' locals as
\* scanargs initialises them, with the loop index at first.
Globals(first, at) ==
  [pc |-> at, proc |-> "running", exit_status |-> 0, stderr |-> <<>>, i |-> first,
   blocksize |-> 0, count |-> COUNT_UNSET, skip |-> 0, seek |-> 0,
   input_file |-> <<"NULL">>, output_file |-> <<"NULL">>,
   conversions_mask |-> {}, input_flags |-> {}, output_flags |-> {},
   status_level |-> STATUS_DEFAULT,
   input_blocksize |-> 0, output_blocksize |-> 0,
   conversion_blocksize |-> 0,
   skip_records |-> 0, skip_bytes |-> 0,
   max_records |-> COUNT_UNSET, max_bytes |-> 0,
   seek_records |-> 0, seek_bytes |-> 0,
   warn_partial_read |-> FALSE, iread_fnc |-> "iread",
   i_nocache |-> FALSE, o_nocache |-> FALSE]

\* ------------------------------------------------- exit, error, usage
EXIT_SUCCESS == 0
EXIT_FAILURE == 1
Running(s) == s.proc = "running"

\* exit (status): the process ends where it is.
exit(s, status) == [s EXCEPT !.proc = "exited", !.exit_status = status]

\* A read through NULL + 1: address 1 is in the page no hosted build maps, so
\* the read faults and the process is killed (SIGSEGV) where it is.  Storing
\* the pointer without reading through it (if, of) goes on.
fault(s) == [s EXCEPT !.proc = "killed"]

\* error (status, errnum, msg): writes the diagnostic; exits when status # 0.
error(s, status, msg) ==
  LET t == [s EXCEPT !.stderr = Append(@, msg)]
  IN IF status # 0 THEN exit(t, status) ELSE t

TryHelp == "Try 'dd --help' for more information."

\* usage (status): the hint is written and usage returns when status is not
\* EXIT_SUCCESS; exit is called only in the else branch.
usage(s, status) ==
  IF status # EXIT_SUCCESS
  THEN [s EXCEPT !.stderr = Append(@, TryHelp)]
  ELSE exit(s, status)

D_unrecognized == "unrecognized operand"
D_number == "invalid number"
D_overflow == "invalid number: EOVERFLOW"
D_conv == "invalid conversion"
D_iflag == "invalid input flag"
D_oflag == "invalid output flag"
D_status == "invalid status level"
D_o_fullblock == "invalid output flag: 'fullblock'"
D_i_seek_bytes == "invalid input flag: 'seek_bytes'"
D_o_count_bytes == "invalid output flag: 'count_bytes'"
D_o_skip_bytes == "invalid output flag: 'skip_bytes'"
D_ascii == "cannot combine any two of {ascii,ebcdic,ibm}"
D_block == "cannot combine block and unblock"
D_lcase == "cannot combine lcase and ucase"
D_excl == "cannot combine excl and nocreat"
D_direct == "cannot combine direct and nocache"

\* ---------------------------------------------- scanargs: one operand
\* Lines 212 and 216: the file names are the values, as pointers into argv.
\* A variant of set_input_file in which the first if= stays in force.
set_input_file_keeps_first(s, val) ==
  IF s.input_file = <<"NULL">> THEN [s EXCEPT !.input_file = val] ELSE s

set_input_file(s, val) == [s EXCEPT !.input_file = val]
set_output_file(s, val) == [s EXCEPT !.output_file = val]

\* conv=, iflag=, oflag= and status=: parse_symbols reads val.
symbols_operand(s, val, table, exclusive, msg, field) ==
  IF val = BadPtr THEN fault(s)
  ELSE LET r == parse_symbols(val, table, exclusive)
       IN IF ~r.ok THEN error(s, EXIT_FAILURE, msg)
          ELSE IF field = "conversions_mask"
          THEN [s EXCEPT !.conversions_mask = @ \cup r.value]
          ELSE IF field = "input_flags"
          THEN [s EXCEPT !.input_flags = @ \cup r.value]
          ELSE IF field = "output_flags"
          THEN [s EXCEPT !.output_flags = @ \cup r.value]
          ELSE [s EXCEPT !.status_level = r.value]

\* A variant of limits in which cbs has the range of skip, seek and count.
limits_cbs_from_zero(name) ==
  IF operand_is(name, N_ibs)
  THEN [n_min |-> 1, n_max |-> MAX_BLOCKSIZE(INPUT_BLOCK_SLOP)]
  ELSE IF operand_is(name, N_obs)
  THEN [n_min |-> 1, n_max |-> MAX_BLOCKSIZE(OUTPUT_BLOCK_SLOP)]
  ELSE IF operand_is(name, N_bs)
  THEN [n_min |-> 1, n_max |-> MAX_BLOCKSIZE(INPUT_BLOCK_SLOP)]
  ELSE [n_min |-> 0, n_max |-> UINTMAX_MAX]

\* Lines 232-264: n_min and n_max as the if-chain of the numeric operands
\* sets them.
limits(name) ==
  IF operand_is(name, N_ibs)
  THEN [n_min |-> 1, n_max |-> MAX_BLOCKSIZE(INPUT_BLOCK_SLOP)]
  ELSE IF operand_is(name, N_obs)
  THEN [n_min |-> 1, n_max |-> MAX_BLOCKSIZE(OUTPUT_BLOCK_SLOP)]
  ELSE IF operand_is(name, N_bs)
  THEN [n_min |-> 1, n_max |-> MAX_BLOCKSIZE(INPUT_BLOCK_SLOP)]
  ELSE IF operand_is(name, N_cbs)
  THEN [n_min |-> 1, n_max |-> SIZE_MAX]
  ELSE [n_min |-> 0, n_max |-> UINTMAX_MAX]

\* Lines 235-270: n is stored in the field the name selects, before it is
\* checked; a name that is none of the seven is reported, and usage called.
store_number(s, name, n) ==
  IF operand_is(name, N_ibs) THEN [s EXCEPT !.input_blocksize = n]
  ELSE IF operand_is(name, N_obs) THEN [s EXCEPT !.output_blocksize = n]
  ELSE IF operand_is(name, N_bs) THEN [s EXCEPT !.blocksize = n]
  ELSE IF operand_is(name, N_cbs) THEN [s EXCEPT !.conversion_blocksize = n]
  ELSE IF operand_is(name, N_skip) THEN [s EXCEPT !.skip = n]
  ELSE IF operand_is(name, N_seek) THEN [s EXCEPT !.seek = n]
  ELSE IF operand_is(name, N_count) THEN [s EXCEPT !.count = n]
  ELSE usage(error(s, 0, D_unrecognized), EXIT_FAILURE)

\* A variant of check_number without the test against n_max.
check_number_lower_only(s, n, err, lim) ==
  IF ~Running(s) THEN s
  ELSE IF n < lim.n_min THEN error(s, EXIT_FAILURE, D_number)
  ELSE IF err = LONGINT_INVALID THEN error(s, EXIT_FAILURE, D_number)
  ELSE IF err = LONGINT_OVERFLOW THEN error(s, EXIT_FAILURE, D_overflow)
  ELSE s

\* Lines 272-279: the range check and the fatal "invalid number".
check_number(s, n, err, lim) ==
  IF ~Running(s) THEN s
  ELSE IF n < lim.n_min THEN error(s, EXIT_FAILURE, D_number)
  ELSE IF lim.n_max < n THEN error(s, EXIT_FAILURE, D_overflow)
  ELSE IF err = LONGINT_INVALID THEN error(s, EXIT_FAILURE, D_number)
  ELSE IF err = LONGINT_OVERFLOW THEN error(s, EXIT_FAILURE, D_overflow)
  ELSE s

\* The else branch of the if-chain: the operands that take a number.
\* parse_integer reads val.
number_operand(s, name, val) ==
  IF val = BadPtr THEN fault(s)
  ELSE check_number(store_number(s, name, parse_integer(val).n),
                    parse_integer(val).n, parse_integer(val).err,
                    limits(name))

\* The body of the for loop for argv[i] = name, and the i++ that follows it.
scan_operand(s, name) ==
  LET eq == strchr(name, "=")
      s0 == IF eq = 0
            THEN usage(error(s, 0, D_unrecognized), EXIT_FAILURE)
            ELSE s
      val == IF eq = 0 THEN BadPtr ELSE SubSeq(name, eq + 1, Len(name))
      s1 == IF ~Running(s0) THEN s0
            ELSE IF operand_is(name, N_if) THEN set_input_file(s0, val)
            ELSE IF operand_is(name, N_of) THEN set_output_file(s0, val)
            ELSE IF operand_is(name, N_conv)
            THEN symbols_operand(s0, val, conversions, FALSE, D_conv,
                                 "conversions_mask")
            ELSE IF operand_is(name, N_iflag)
            THEN symbols_operand(s0, val, flags, FALSE, D_iflag, "input_flags")
            ELSE IF operand_is(name, N_oflag)
            THEN symbols_operand(s0, val, flags, FALSE, D_oflag, "output_flags")
            ELSE IF operand_is(name, N_status)
            THEN symbols_operand(s0, val, statuses, TRUE, D_status,
                                 "status_level")
            ELSE number_operand(s0, name, val)
  IN IF Running(s1) THEN [s1 EXCEPT !.i = @ + 1] ELSE s1

\* ------------------------------------------------ scanargs: resolver
multiple_bits_set(x) == Cardinality(x) > 1

\* A variant of collapse_bs in which bs leaves a given ibs or obs alone.
collapse_bs_fills_unset(s) ==
  IF s.blocksize # 0
  THEN [s EXCEPT
          !.input_blocksize = IF @ = 0 THEN s.blocksize ELSE @,
          !.output_blocksize = IF @ = 0 THEN s.blocksize ELSE @]
  ELSE [s EXCEPT !.conversions_mask = @ \cup {"C_TWOBUFS"}]

\* A variant of collapse_bs that asks for two buffers with bs as without.
collapse_bs_forces_two_buffers(s) ==
  IF s.blocksize # 0
  THEN [s EXCEPT !.input_blocksize = s.blocksize,
                 !.output_blocksize = s.blocksize,
                 !.conversions_mask = @ \cup {"C_TWOBUFS"}]
  ELSE [s EXCEPT !.conversions_mask = @ \cup {"C_TWOBUFS"}]

\* Lines 283-290: bs, when given, is both block sizes; else two buffers.
collapse_bs(s) ==
  IF s.blocksize # 0
  THEN [s EXCEPT !.input_blocksize = s.blocksize,
                 !.output_blocksize = s.blocksize]
  ELSE [s EXCEPT !.conversions_mask = @ \cup {"C_TWOBUFS"}]

\* A variant of default_sizes that leaves output_blocksize as it is.
default_sizes_input_only(s) ==
  [s EXCEPT !.input_blocksize = IF @ = 0 THEN DEFAULT_BLOCKSIZE ELSE @]

\* Lines 292-295: a block size still 0 becomes DEFAULT_BLOCKSIZE.
default_sizes(s) ==
  [s EXCEPT !.input_blocksize = IF @ = 0 THEN DEFAULT_BLOCKSIZE ELSE @,
            !.output_blocksize = IF @ = 0 THEN DEFAULT_BLOCKSIZE ELSE @]

\* A variant of gate_cbs that drops block only.
gate_cbs_keeps_unblock(s) ==
  IF s.conversion_blocksize = 0
  THEN [s EXCEPT !.conversions_mask = @ \ {"C_BLOCK"}]
  ELSE s

\* Lines 296-297: without a cbs, block and unblock are dropped.
gate_cbs(s) ==
  IF s.conversion_blocksize = 0
  THEN [s EXCEPT !.conversions_mask = @ \ {"C_BLOCK", "C_UNBLOCK"}]
  ELSE s

\* Lines 299-300: dsync or sync on input adds O_RSYNC.
sync_alias(s) ==
  IF s.input_flags \cap {"O_DSYNC", "O_SYNC"} # {}
  THEN [s EXCEPT !.input_flags = @ \cup {"O_RSYNC"}]
  ELSE s

\* Lines 283-300, resolver steps 1 to 4.
block_sizes(s) ==
  [sync_alias(gate_cbs(default_sizes(collapse_bs(s)))) EXCEPT !.pc = "misplaced"]

\* Lines 302-320: the three checks of flags given on the wrong side.
misplaced_flags(s) ==
  LET s1 == IF "O_FULLBLOCK" \in s.output_flags
            THEN usage(error(s, 0, D_o_fullblock), EXIT_FAILURE) ELSE s
      s2 == IF ~Running(s1) THEN s1
            ELSE IF "O_SEEK_BYTES" \in s1.input_flags
            THEN usage(error(s1, 0, D_i_seek_bytes), EXIT_FAILURE) ELSE s1
      s3 == IF ~Running(s2) THEN s2
            ELSE IF s2.output_flags \cap {"O_COUNT_BYTES", "O_SKIP_BYTES"} # {}
            THEN usage(error(s2, 0,
                             IF "O_COUNT_BYTES" \in s2.output_flags
                             THEN D_o_count_bytes ELSE D_o_skip_bytes),
                       EXIT_FAILURE)
            ELSE s2
  IN IF Running(s3) THEN [s3 EXCEPT !.pc = "split"] ELSE s3

\* A variant of split_units that takes skip in records whatever the flags.
split_units_skip_in_records(s) ==
  LET s1 == IF s.skip # 0 THEN [s EXCEPT !.skip_records = s.skip] ELSE s
      s2 == IF "O_COUNT_BYTES" \in s1.input_flags /\ s1.count # COUNT_UNSET
            THEN [s1 EXCEPT !.max_records = s1.count \div s1.input_blocksize,
                            !.max_bytes = s1.count % s1.input_blocksize]
            ELSE IF s1.count # COUNT_UNSET
            THEN [s1 EXCEPT !.max_records = s1.count]
            ELSE s1
      s3 == IF "O_SEEK_BYTES" \in s2.output_flags /\ s2.seek # 0
            THEN [s2 EXCEPT !.seek_records = s2.seek \div s2.output_blocksize,
                            !.seek_bytes = s2.seek % s2.output_blocksize]
            ELSE IF s2.seek # 0 THEN [s2 EXCEPT !.seek_records = s2.seek]
            ELSE s2
  IN [s3 EXCEPT !.pc = "strategy"]

\* Lines 322-344: skip, count and seek in records and bytes.
split_units(s) ==
  LET s1 == IF "O_SKIP_BYTES" \in s.input_flags /\ s.skip # 0
            THEN [s EXCEPT !.skip_records = s.skip \div s.input_blocksize,
                           !.skip_bytes = s.skip % s.input_blocksize]
            ELSE IF s.skip # 0 THEN [s EXCEPT !.skip_records = s.skip]
            ELSE s
      s2 == IF "O_COUNT_BYTES" \in s1.input_flags /\ s1.count # COUNT_UNSET
            THEN [s1 EXCEPT !.max_records = s1.count \div s1.input_blocksize,
                            !.max_bytes = s1.count % s1.input_blocksize]
            ELSE IF s1.count # COUNT_UNSET
            THEN [s1 EXCEPT !.max_records = s1.count]
            ELSE s1
      s3 == IF "O_SEEK_BYTES" \in s2.output_flags /\ s2.seek # 0
            THEN [s2 EXCEPT !.seek_records = s2.seek \div s2.output_blocksize,
                            !.seek_bytes = s2.seek % s2.output_blocksize]
            ELSE IF s2.seek # 0 THEN [s2 EXCEPT !.seek_records = s2.seek]
            ELSE s2
  IN [s3 EXCEPT !.pc = "strategy"]

\* A variant of read_strategy that takes a count of 0 for a count.
read_strategy_counts_zero(s) ==
  [s EXCEPT
     !.warn_partial_read =
        /\ "C_TWOBUFS" \notin s.conversions_mask
        /\ "O_FULLBLOCK" \notin s.input_flags
        /\ \/ s.skip_records # 0
           \/ s.max_records < COUNT_UNSET
           \/ "O_DIRECT" \in (s.input_flags \cup s.output_flags),
     !.iread_fnc = IF "O_FULLBLOCK" \in s.input_flags
                   THEN "iread_fullblock" ELSE "iread",
     !.input_flags = @ \ {"O_FULLBLOCK"},
     !.pc = "exclusive"]

\* Lines 350-359: warn_partial_read, iread_fnc, fullblock cleared.
read_strategy(s) ==
  [s EXCEPT
     !.warn_partial_read =
        /\ "C_TWOBUFS" \notin s.conversions_mask
        /\ "O_FULLBLOCK" \notin s.input_flags
        /\ \/ s.skip_records # 0
           \/ (0 < s.max_records /\ s.max_records < COUNT_UNSET)
           \/ "O_DIRECT" \in (s.input_flags \cup s.output_flags),
     !.iread_fnc = IF "O_FULLBLOCK" \in s.input_flags
                   THEN "iread_fullblock" ELSE "iread",
     !.input_flags = @ \ {"O_FULLBLOCK"},
     !.pc = "exclusive"]

\* A variant of exclusive_groups that tests direct and nocache on the input
\* side only.
exclusive_groups_input_side_only(s) ==
  IF multiple_bits_set(s.conversions_mask \cap {"C_ASCII", "C_EBCDIC", "C_IBM"})
  THEN error(s, EXIT_FAILURE, D_ascii)
  ELSE IF multiple_bits_set(s.conversions_mask \cap {"C_BLOCK", "C_UNBLOCK"})
  THEN error(s, EXIT_FAILURE, D_block)
  ELSE IF multiple_bits_set(s.conversions_mask \cap {"C_LCASE", "C_UCASE"})
  THEN error(s, EXIT_FAILURE, D_lcase)
  ELSE IF multiple_bits_set(s.conversions_mask \cap {"C_EXCL", "C_NOCREAT"})
  THEN error(s, EXIT_FAILURE, D_excl)
  ELSE IF multiple_bits_set(s.input_flags \cap {"O_DIRECT", "O_NOCACHE"})
  THEN error(s, EXIT_FAILURE, D_direct)
  ELSE [s EXCEPT !.pc = "nocache"]

\* Lines 361-371: the exclusivity checks, each fatal.
exclusive_groups(s) ==
  IF multiple_bits_set(s.conversions_mask \cap {"C_ASCII", "C_EBCDIC", "C_IBM"})
  THEN error(s, EXIT_FAILURE, D_ascii)
  ELSE IF multiple_bits_set(s.conversions_mask \cap {"C_BLOCK", "C_UNBLOCK"})
  THEN error(s, EXIT_FAILURE, D_block)
  ELSE IF multiple_bits_set(s.conversions_mask \cap {"C_LCASE", "C_UCASE"})
  THEN error(s, EXIT_FAILURE, D_lcase)
  ELSE IF multiple_bits_set(s.conversions_mask \cap {"C_EXCL", "C_NOCREAT"})
  THEN error(s, EXIT_FAILURE, D_excl)
  ELSE IF \/ multiple_bits_set(s.input_flags \cap {"O_DIRECT", "O_NOCACHE"})
          \/ multiple_bits_set(s.output_flags \cap {"O_DIRECT", "O_NOCACHE"})
  THEN error(s, EXIT_FAILURE, D_direct)
  ELSE [s EXCEPT !.pc = "nocache"]

\* Lines 373-382: nocache moves from the flags into i_nocache and o_nocache;
\* scanargs returns.
extract_nocache(s) ==
  LET s1 == IF "O_NOCACHE" \in s.input_flags
            THEN [s EXCEPT !.i_nocache = TRUE, !.input_flags = @ \ {"O_NOCACHE"}]
            ELSE s
      s2 == IF "O_NOCACHE" \in s1.output_flags
            THEN [s1 EXCEPT !.o_nocache = TRUE,
                            !.output_flags = @ \ {"O_NOCACHE"}]
            ELSE s1
  IN [s2 EXCEPT !.pc = "returned"]

\* ---------------------------------------------------------------- main
\* getopt_long (argc, argv, "", NULL, NULL) on its first call: with no short
\* and no long option declared every option-style argument is unknown, which
\* getopt_long reports as '?'; when the scan ends (at "--" or at the end of
\* argv, operands being skipped over) it returns -1.  [result, optind].
RECURSIVE getopt_scan(_, _)
getopt_scan(args, k) ==
  IF k > Len(args) THEN [result |-> -1, optind |-> 1]
  ELSE IF args[k] = <<"-", "-">> THEN [result |-> -1, optind |-> 2]
  ELSE IF Len(args[k]) > 1 /\ args[k][1] = "-"
  THEN [result |-> 63, optind |-> 2]
  ELSE getopt_scan(args, k + 1)

getopt_long(args) == getopt_scan(args, 1)

\* main up to the call of scanargs: any nonzero result of getopt_long makes
\* main return EXIT_FAILURE.
main_getopt(s, args) ==
  IF getopt_long(args).result # 0
  THEN exit(s, EXIT_FAILURE)
  ELSE [s EXCEPT !.pc = "operands", !.i = getopt_long(args).optind]

\* ------------------------------------------------------------- inputs
\* n in decimal, as the user writes it in the value of an operand.
RECURSIVE Decimal(_)
Decimal(n) ==
  LET d == <<"0", "1", "2", "3", "4", "5", "6", "7", "8", "9">>[(n % 10) + 1]
  IN IF n < 10 THEN <<d>> ELSE Append(Decimal(n \div 10), d)

\* The arguments the vectors are made of: operands of every name, with and
\* without '=', with good and bad values.
Operands ==
  <<
    \* 1: if=a
    <<"i", "f", "=", "a">>,
    \* 2: if=b
    <<"i", "f", "=", "b">>,
    \* 3: of=b
    <<"o", "f", "=", "b">>,
    \* 4: if
    <<"i", "f">>,
    \* 5: x
    <<"x">>,
    \* 6: k=z
    <<"k", "=", "z">>,
    \* 7: k=1
    <<"k", "=", "1">>,
    \* 8: ibs=2
    <<"i", "b", "s", "=", "2">>,
    \* 9: obs=3
    <<"o", "b", "s", "=", "3">>,
    \* 10: bs=4
    <<"b", "s", "=", "4">>,
    \* 11: bs=5
    <<"b", "s", "=", "5">>,
    \* 12: bs=1x0
    <<"b", "s", "=", "1", "x", "0">>,
    \* 13: cbs=0
    <<"c", "b", "s", "=", "0">>,
    \* 14: cbs=3
    <<"c", "b", "s", "=", "3">>,
    \* 15: skip=5
    <<"s", "k", "i", "p", "=", "5">>,
    \* 16: count=7
    <<"c", "o", "u", "n", "t", "=", "7">>,
    \* 17: seek=5
    <<"s", "e", "e", "k", "=", "5">>,
    \* 18: conv=ascii
    <<"c", "o", "n", "v", "=", "a", "s", "c", "i", "i">>,
    \* 19: conv=ebcdic
    <<"c", "o", "n", "v", "=", "e", "b", "c", "d", "i", "c">>,
    \* 20: conv=block
    <<"c", "o", "n", "v", "=", "b", "l", "o", "c", "k">>,
    \* 21: conv=lcase,ucase
    <<"c", "o", "n", "v", "=", "l", "c", "a", "s", "e", ",", "u", "c", "a", "s", "e">>,
    \* 22: conv=excl,nocreat
    <<"c", "o", "n", "v", "=", "e", "x", "c", "l", ",", "n", "o", "c", "r", "e", "a", "t">>,
    \* 23: iflag=direct
    <<"i", "f", "l", "a", "g", "=", "d", "i", "r", "e", "c", "t">>,
    \* 24: iflag=nocache
    <<"i", "f", "l", "a", "g", "=", "n", "o", "c", "a", "c", "h", "e">>,
    \* 25: oflag=direct,nocache
    <<"o", "f", "l", "a", "g", "=", "d", "i", "r", "e", "c", "t", ",", "n", "o", "c", "a", "c", "h", "e">>,
    \* 26: iflag=fullblock
    <<"i", "f", "l", "a", "g", "=", "f", "u", "l", "l", "b", "l", "o", "c", "k">>,
    \* 27: oflag=fullblock
    <<"o", "f", "l", "a", "g", "=", "f", "u", "l", "l", "b", "l", "o", "c", "k">>,
    \* 28: iflag=seek_bytes
    <<"i", "f", "l", "a", "g", "=", "s", "e", "e", "k", "_", "b", "y", "t", "e", "s">>,
    \* 29: oflag=count_bytes
    <<"o", "f", "l", "a", "g", "=", "c", "o", "u", "n", "t", "_", "b", "y", "t", "e", "s">>,
    \* 30: oflag=skip_bytes
    <<"o", "f", "l", "a", "g", "=", "s", "k", "i", "p", "_", "b", "y", "t", "e", "s">>,
    \* 31: iflag=skip_bytes
    <<"i", "f", "l", "a", "g", "=", "s", "k", "i", "p", "_", "b", "y", "t", "e", "s">>,
    \* 32: status=none
    <<"s", "t", "a", "t", "u", "s", "=", "n", "o", "n", "e">>,
    \* 33: status=noxfer
    <<"s", "t", "a", "t", "u", "s", "=", "n", "o", "x", "f", "e", "r">>,
    \* 34: count=0
    <<"c", "o", "u", "n", "t", "=", "0">>,
    \* 35: iflag=count_bytes
    <<"i", "f", "l", "a", "g", "=", "c", "o", "u", "n", "t", "_", "b", "y", "t", "e", "s">>,
    \* 36: oflag=seek_bytes
    <<"o", "f", "l", "a", "g", "=", "s", "e", "e", "k", "_", "b", "y", "t", "e", "s">>,
    \* 37: conv=z
    <<"c", "o", "n", "v", "=", "z">>,
    \* 38: ibs=0
    <<"i", "b", "s", "=", "0">>,
    \* 39: conv=swab
    <<"c", "o", "n", "v", "=", "s", "w", "a", "b">>,
    \* 40: conv=sparse,sync
    <<"c", "o", "n", "v", "=", "s", "p", "a", "r", "s", "e", ",", "s", "y", "n", "c">>,
    \* 41: ibs= one more than its maximum
    N_ibs \o <<"=">> \o Decimal(MAX_BLOCKSIZE(INPUT_BLOCK_SLOP) + 1),
    \* 42: obs= one more than its maximum
    N_obs \o <<"=">> \o Decimal(MAX_BLOCKSIZE(OUTPUT_BLOCK_SLOP) + 1),
    \* 43: skip=1030
    <<"s", "k", "i", "p", "=", "1", "0", "3", "0">>,
    \* 44: count= the largest uintmax_t
    N_count \o <<"=">> \o Decimal(UINTMAX_MAX),
    \* 45: iflag=fullblock,direct
    <<"i", "f", "l", "a", "g", "=", "f", "u", "l", "l", "b", "l", "o", "c", "k", ",", "d", "i", "r", "e", "c", "t">>,
    \* 46: conv=ascii,block
    <<"c", "o", "n", "v", "=", "a", "s", "c", "i", "i", ",", "b", "l", "o", "c", "k">>,
    \* 47: conv=ibm,unblock
    <<"c", "o", "n", "v", "=", "i", "b", "m", ",", "u", "n", "b", "l", "o", "c", "k">>,
    \* 48: conv=ascii,ibm
    <<"c", "o", "n", "v", "=", "a", "s", "c", "i", "i", ",", "i", "b", "m">>,
    \* 49: iff=1
    <<"i", "f", "f", "=", "1">>
  >>

\* argv holds, for each argument, its index in Operands, 0 for "--" and -1
\* for the option "-x"; ArgText is the string.
ArgText(a) ==
  IF a = 0 THEN <<"-", "-">>
  ELSE IF a = -1 THEN <<"-", "x">>
  ELSE Operands[a]

args_of(v) == [k \in 1..Len(v) |-> ArgText(v[k])]

OperandVectors == UNION {[1..n -> 1..Len(Operands)] : n \in 0..MaxArgs}

\* What may stand before the operands: nothing, "--", or an option.
Leads == {<<>>, <<0>>, <<-1>>}

\* ----------------------------------------------------------- behaviour
argc == Len(argv) + 1

\* The process starts in main (entry "main").  getopt_long never returns 0,
\* so main never gets to its call of scanargs; scanargs is therefore also
\* entered directly (entry "operands"), as main would call it: on the vectors
\* without options, the variables as at program start and optind past a
\* leading "--".  A vector has at most MaxArgs arguments.
Init ==
  \E lead \in Leads, ops \in OperandVectors, entry \in {"main", "operands"} :
    /\ Len(lead) + Len(ops) <= MaxArgs
    /\ entry = "operands" => lead # <<-1>>
    /\ argv = lead \o ops
    /\ optind = IF entry = "main" THEN 1 ELSE Len(lead) + 1
    /\ stdout = <<>>
    /\ LET g == Globals(IF entry = "main" THEN 1 ELSE Len(lead) + 1, entry)
       IN /\ pc = g.pc
          /\ proc = g.proc
          /\ exit_status = g.exit_status
          /\ stderr = g.stderr
          /\ i = g.i
          /\ blocksize = g.blocksize
          /\ count = g.count
          /\ skip = g.skip
          /\ seek = g.seek
          /\ input_file = g.input_file
          /\ output_file = g.output_file
          /\ conversions_mask = g.conversions_mask
          /\ input_flags = g.input_flags
          /\ output_flags = g.output_flags
          /\ status_level = g.status_level
          /\ input_blocksize = g.input_blocksize
          /\ output_blocksize = g.output_blocksize
          /\ conversion_blocksize = g.conversion_blocksize
          /\ skip_records = g.skip_records
          /\ skip_bytes = g.skip_bytes
          /\ max_records = g.max_records
          /\ max_bytes = g.max_bytes
          /\ seek_records = g.seek_records
          /\ seek_bytes = g.seek_bytes
          /\ warn_partial_read = g.warn_partial_read
          /\ iread_fnc = g.iread_fnc
          /\ i_nocache = g.i_nocache
          /\ o_nocache = g.o_nocache

\* main, lines 402-416.
Main ==
  /\ proc = "running" /\ pc = "main"
  /\ LET r == getopt_long(args_of(argv))
     IN /\ stdout' = IF r.result # 0
                      THEN stdout \o <<"Hello!", "Incorrect Options!">>
                      ELSE Append(stdout, "Hello!")
        /\ optind' = r.optind
  /\ Load(main_getopt(State, args_of(argv)))
  /\ UNCHANGED argv

\* One turn of the for loop of scanargs.
ScanOperand ==
  /\ proc = "running" /\ pc = "operands" /\ i < argc
  /\ Load(scan_operand(State, ArgText(argv[i])))
  /\ UNCHANGED <<argv, optind, stdout>>

\* The loop ends; resolver steps 1 to 4.
BlockSizes ==
  /\ proc = "running" /\ pc = "operands" /\ ~(i < argc)
  /\ Load(block_sizes(State))
  /\ UNCHANGED <<argv, optind, stdout>>

\* Resolver step 5.
MisplacedFlags ==
  /\ proc = "running" /\ pc = "misplaced"
  /\ Load(misplaced_flags(State))
  /\ UNCHANGED <<argv, optind, stdout>>

\* Resolver steps 6 to 8.
SplitUnits ==
  /\ proc = "running" /\ pc = "split"
  /\ Load(split_units(State))
  /\ UNCHANGED <<argv, optind, stdout>>

\* Resolver steps 9 and 10.
ReadStrategy ==
  /\ proc = "running" /\ pc = "strategy"
  /\ Load(read_strategy(State))
  /\ UNCHANGED <<argv, optind, stdout>>

\* Resolver step 11.
ExclusiveGroups ==
  /\ proc = "running" /\ pc = "exclusive"
  /\ Load(exclusive_groups(State))
  /\ UNCHANGED <<argv, optind, stdout>>

\* Resolver step 12; scanargs returns.
ExtractNocache ==
  /\ proc = "running" /\ pc = "nocache"
  /\ Load(extract_nocache(State))
  /\ UNCHANGED <<argv, optind, stdout>>

\* main, line 426: return EXIT_SUCCESS.
MainReturn ==
  /\ proc = "running" /\ pc = "returned"
  /\ Load(exit(State, EXIT_SUCCESS))
  /\ UNCHANGED <<argv, optind, stdout>>

Next ==
  \/ Main
  \/ ScanOperand
  \/ BlockSizes
  \/ MisplacedFlags
  \/ SplitUnits
  \/ ReadStrategy
  \/ ExclusiveGroups
  \/ ExtractNocache
  \/ MainReturn

Spec == Init /\ [][Next]_vars

\* ------------------------------------------------------------ outcomes
Accepted == proc = "exited" /\ exit_status = EXIT_SUCCESS
Rejected == proc = "exited" /\ exit_status = EXIT_FAILURE

\* ------------------------------------------------- whole runs of scanargs
\* The next state of a running process inside or after scanargs, on the
\* argument strings args: the statement pc names.
step(s, args) ==
  IF s.pc = "operands" /\ s.i < Len(args) + 1 THEN scan_operand(s, args[s.i])
  ELSE IF s.pc = "operands" THEN block_sizes(s)
  ELSE IF s.pc = "misplaced" THEN misplaced_flags(s)
  ELSE IF s.pc = "split" THEN split_units(s)
  ELSE IF s.pc = "strategy" THEN read_strategy(s)
  ELSE IF s.pc = "exclusive" THEN exclusive_groups(s)
  ELSE IF s.pc = "nocache" THEN extract_nocache(s)
  ELSE exit(s, EXIT_SUCCESS)

RECURSIVE run_from(_, _)
run_from(s, args) == IF Running(s) THEN run_from(step(s, args), args) ELSE s

\* scanargs entered with optind = first on args, run until the process ends.
run(args, first) == run_from(Globals(first, "operands"), args)

\* The plan: everything scanargs leaves for the I/O engine.
Plan(s) ==
  [input_file |-> s.input_file, output_file |-> s.output_file,
   conversions_mask |-> s.conversions_mask, input_flags |-> s.input_flags,
   output_flags |-> s.output_flags, status_level |-> s.status_level,
   input_blocksize |-> s.input_blocksize,
   output_blocksize |-> s.output_blocksize,
   conversion_blocksize |-> s.conversion_blocksize,
   skip_records |-> s.skip_records, skip_bytes |-> s.skip_bytes,
   max_records |-> s.max_records, max_bytes |-> s.max_bytes,
   seek_records |-> s.seek_records, seek_bytes |-> s.seek_bytes,
   warn_partial_read |-> s.warn_partial_read, iread_fnc |-> s.iread_fnc,
   i_nocache |-> s.i_nocache, o_nocache |-> s.o_nocache]

\* How a run ended, and with which plan when it was accepted.
Outcome(s) ==
  [proc |-> s.proc, exit_status |-> s.exit_status,
   plan |-> IF s.proc = "exited" /\ s.exit_status = EXIT_SUCCESS
            THEN Plan(s) ELSE <<>>]

\* --------------------------------------------------- reading the vector
InScanargs == pc # "main"
Arg(k) == ArgText(argv[k])
HasEq(str) == strchr(str, "=") # 0
ValueOf(str) == SubSeq(str, strchr(str, "=") + 1, Len(str))
\* The name of an argument: the bytes before its first '=', all when none.
NameOf(str) == IF HasEq(str) THEN SubSeq(str, 1, strchr(str, "=") - 1) ELSE str
\* The operands scanargs sees: the positions from optind on.
Positions == optind..Len(argv)
\* argv[k] has been through the body of the loop.
Met(k) ==
  /\ InScanargs
  /\ k \in Positions
  /\ \/ i > k
     \/ i = k /\ proc # "running"
\* The diagnostics written, without the hints of usage.
RECURSIVE Diagnostics(_)
Diagnostics(lines) ==
  IF lines = <<>> THEN <<>>
  ELSE IF Head(lines) = TryHelp THEN Diagnostics(Tail(lines))
  ELSE <<Head(lines)>> \o Diagnostics(Tail(lines))

IsOption(str) == Len(str) > 1 /\ str[1] = "-" /\ str # <<"-", "-">>
AfterBlockSizes == pc \in {"misplaced", "split", "strategy", "exclusive", "nocache", "returned"}
AfterMisplaced == pc \in {"split", "strategy", "exclusive", "nocache", "returned"}
AfterExclusive == pc \in {"nocache", "returned"}

\* ---------------------------------------------------------------- C1
\* C1: once the operand pass has met an argument without '=', the run is
\* rejected there with the failure exit code: the argument was matched
\* against no operand name (input_file and output_file do not hold its
\* value), i still points at it, and no resolver step has run.
C1_NoEqualsIsRejected ==
  \A k \in Positions :
    (Met(k) /\ ~HasEq(Arg(k))) =>
      /\ Rejected
      /\ pc = "operands" /\ i = k
      /\ input_file # BadPtr /\ output_file # BadPtr

\* ---------------------------------------------------------------- C2
\* C2: no run gets past resolver step 5 with fullblock, count_bytes or
\* skip_bytes among the output flags or seek_bytes among the input flags; in
\* particular no accepted plan has them.
C2_MisplacedFlagIsFatal ==
  AfterMisplaced =>
    /\ output_flags \cap {"O_FULLBLOCK", "O_COUNT_BYTES", "O_SKIP_BYTES"} = {}
    /\ "O_SEEK_BYTES" \notin input_flags

\* ---------------------------------------------------------------- C3
\* C3: main ends at its getopt_long step (with EXIT_FAILURE) only when argv
\* holds an option-style argument; a vector of operands, with or without a
\* leading "--", gets through to scanargs.
C3_OperandsPassGetopt ==
  (pc = "main" /\ proc = "exited") =>
    \E k \in 1..Len(argv) : IsOption(Arg(k))

\* ---------------------------------------------------------------- C4
\* The thirteen names, and the positions from first on of the arguments of
\* args that scanargs takes for the name pat.
LastWinsNames ==
  {N_if, N_of, N_ibs, N_obs, N_bs, N_cbs, N_skip, N_seek, N_count, N_status}
AccumulatingNames == {N_conv, N_iflag, N_oflag}
Occurrences(args, first, pat) ==
  {k \in first..Len(args) : operand_is(args[k], pat)}
MaxOf(S) == CHOOSE m \in S : \A k \in S : k <= m

\* args restricted to the positions in K, in order.
RECURSIVE KeepFrom(_, _, _)
KeepFrom(args, K, k) ==
  IF k > Len(args) THEN <<>>
  ELSE (IF k \in K THEN <<args[k]>> ELSE <<>>) \o KeepFrom(args, K, k + 1)

\* args without the occurrences of pat before the last.
DropEarlier(args, first, pat) ==
  LET occ == Occurrences(args, first, pat)
  IN KeepFrom(args, (1..Len(args)) \ (occ \ {MaxOf(occ)}), 1)

\* The values of the occurrences of pat from position k on, joined by commas.
RECURSIVE JoinValues(_, _, _)
JoinValues(args, occ, k) ==
  IF k > Len(args) THEN <<>>
  ELSE IF k \in occ
  THEN ValueOf(args[k])
       \o (IF k = MaxOf(occ) THEN <<>> ELSE <<",">>)
       \o JoinValues(args, occ, k + 1)
  ELSE JoinValues(args, occ, k + 1)

\* args with the occurrences of pat replaced by one operand, at the place of
\* the last, whose value is all their values joined by commas.
MergeAll(args, first, pat) ==
  LET occ == Occurrences(args, first, pat)
      merged == pat \o <<"=">> \o JoinValues(args, occ, 1)
      kept == DropEarlier(args, first, pat)
      at == MaxOf(occ) - (Cardinality(occ) - 1)
  IN [k \in 1..Len(kept) |-> IF k = at THEN merged ELSE kept[k]]

Repeated(pat) == Cardinality(Occurrences(args_of(argv), optind, pat)) > 1

\* C4 as stated: in an accepted run, for every one of the thirteen names
\* that occurs more than once, the plan is the plan of the vector without
\* the earlier occurrences.
C4_LastWinsForEveryName ==
  (Accepted /\ InScanargs) =>
    \A pat \in LastWinsNames \cup AccumulatingNames :
      Repeated(pat) =>
        Outcome(run(DropEarlier(args_of(argv), optind, pat), optind))
          = Outcome(State)

\* C4 as amended: the last occurrence wins for if, of, ibs, obs, bs, cbs,
\* skip, seek, count and status; the occurrences of conv, iflag and oflag
\* accumulate, the plan being that of the vector with their values joined in
\* one operand.
C4_LastWinsOrAccumulates ==
  (Accepted /\ InScanargs) =>
    /\ \A pat \in LastWinsNames :
         Repeated(pat) =>
           Outcome(run(DropEarlier(args_of(argv), optind, pat), optind))
             = Outcome(State)
    /\ \A pat \in AccumulatingNames :
         Repeated(pat) =>
           Outcome(run(MergeAll(args_of(argv), optind, pat), optind))
             = Outcome(State)

\* An accepted run with two different if= operands, the later one in force.
C4_Witness ==
  /\ Accepted /\ InScanargs
  /\ \E j, k \in Positions :
       /\ j < k
       /\ operand_is(Arg(j), N_if) /\ operand_is(Arg(k), N_if)
       /\ HasEq(Arg(j)) /\ HasEq(Arg(k))
       /\ ValueOf(Arg(j)) # ValueOf(Arg(k))
       /\ input_file = ValueOf(Arg(k))

\* ---------------------------------------------------------------- C5
\* C5: a run writes at most one diagnostic, and a rejected run exactly one.
C5_SingleDiagnostic ==
  InScanargs =>
    /\ Len(Diagnostics(stderr)) <= 1
    /\ Rejected => Len(Diagnostics(stderr)) = 1

\* ---------------------------------------------------------------- C6
Injective(f) == \A a, b \in DOMAIN f : f[a] = f[b] => a = b
\* The vectors that keep the arguments before first and permute the rest.
Permuted(args, first) ==
  LET n == Len(args) - first + 1
  IN {[k \in 1..Len(args) |->
         IF k < first THEN args[k] ELSE args[first - 1 + f[k - first + 1]]] :
      f \in {g \in [1..n -> 1..n] : Injective(g)}}

DistinctNames ==
  \A j, k \in Positions : j # k => NameOf(Arg(j)) # NameOf(Arg(k))

\* C6: when the names of the arguments are all distinct, a run that has
\* ended has the outcome (rejected, or accepted with this plan) of the run on
\* every permutation of the vector.
C6_OrderIndependent ==
  (InScanargs /\ proc # "running" /\ DistinctNames) =>
    \A p \in Permuted(args_of(argv), optind) :
      Outcome(run(p, optind)) = Outcome(State)

\* ---------------------------------------------------------------- C7
\* A cbs= operand, and the number its value parses to.
IsCbs(str) ==
  operand_is(str, N_cbs) /\ HasEq(str)
    /\ parse_integer(ValueOf(str)).err = LONGINT_OK
CbsValue(str) == parse_integer(ValueOf(str)).n
RejectedAt(k) == Rejected /\ pc = "operands" /\ i = k

\* C7 as stated: no run is rejected at a cbs=0 operand.
C7_CbsZeroIsAccepted ==
  \A k \in Positions :
    (Met(k) /\ IsCbs(Arg(k)) /\ CbsValue(Arg(k)) = 0) => ~RejectedAt(k)

\* C7 as amended: cbs accepts the integers from 1 to SIZE_MAX; a cbs=0
\* operand is rejected with "invalid number" when the operand pass meets it,
\* and an accepted plan made from a vector with a cbs operand has
\* conversion_blocksize >= 1.
C7_CbsIsPositive ==
  /\ \A k \in Positions :
       (Met(k) /\ IsCbs(Arg(k))) =>
         IF CbsValue(Arg(k)) = 0
         THEN RejectedAt(k) /\ stderr[Len(stderr)] = D_number
         ELSE ~RejectedAt(k)
  /\ (Accepted /\ InScanargs /\ \E k \in Positions : operand_is(Arg(k), N_cbs))
       => conversion_blocksize >= 1 /\ conversion_blocksize <= SIZE_MAX

\* The run of a vector with cbs=0, rejected at it.
C7_Witness ==
  \E k \in Positions :
    /\ Met(k) /\ IsCbs(Arg(k)) /\ CbsValue(Arg(k)) = 0
    /\ RejectedAt(k)
    /\ conversion_blocksize = 0

\* ---------------------------------------------------------------- C8
\* The five exclusivity groups on the state as it is: the last one counts a
\* side's nocache whether it is still a flag or already the boolean.
GroupViolated(g) ==
  CASE g = 1 -> Cardinality(conversions_mask \cap {"C_ASCII", "C_EBCDIC", "C_IBM"}) > 1
    [] g = 2 -> Cardinality(conversions_mask \cap {"C_BLOCK", "C_UNBLOCK"}) > 1
    [] g = 3 -> Cardinality(conversions_mask \cap {"C_LCASE", "C_UCASE"}) > 1
    [] g = 4 -> Cardinality(conversions_mask \cap {"C_EXCL", "C_NOCREAT"}) > 1
    [] g = 5 -> \/ "O_DIRECT" \in input_flags
                   /\ ("O_NOCACHE" \in input_flags \/ i_nocache)
                \/ "O_DIRECT" \in output_flags
                   /\ ("O_NOCACHE" \in output_flags \/ o_nocache)
GroupDiagnostic(g) ==
  CASE g = 1 -> D_ascii [] g = 2 -> D_block [] g = 3 -> D_lcase
    [] g = 4 -> D_excl [] g = 5 -> D_direct

\* C8: past the exclusivity step, and so in every accepted plan, no group is
\* violated; a run that ends at the step is rejected with the diagnostic of
\* the first group its masks violate.
C8_ExclusivityGroups ==
  /\ AfterExclusive => \A g \in 1..5 : ~GroupViolated(g)
  /\ (pc = "exclusive" /\ proc # "running") =>
       /\ Rejected
       /\ \E g \in 1..5 :
            /\ GroupViolated(g)
            /\ stderr[Len(stderr)] = GroupDiagnostic(g)
            /\ \A h \in 1..(g - 1) : ~GroupViolated(h)

\* A run rejected for direct and nocache together on the output side.
C8_Witness ==
  /\ Rejected /\ pc = "exclusive"
  /\ {"O_DIRECT", "O_NOCACHE"} \subseteq output_flags
  /\ stderr[Len(stderr)] = D_direct

\* ---------------------------------------------------------------- C9
BsOperands ==
  {k \in Positions : operand_is(Arg(k), N_bs) /\ HasEq(Arg(k))}

\* C9: in an accepted plan made from a vector with a bs= operand, both block
\* sizes are the number the last bs= operand parses to.
C9_BsWins ==
  (Accepted /\ InScanargs /\ BsOperands # {}) =>
    LET N == parse_integer(ValueOf(Arg(MaxOf(BsOperands)))).n
    IN input_blocksize = N /\ output_blocksize = N

\* An accepted plan from a vector with bs= and an ibs= or obs= of another
\* value.
C9_Witness ==
  /\ Accepted /\ InScanargs /\ BsOperands # {}
  /\ \E k \in Positions :
       /\ operand_is(Arg(k), N_ibs) \/ operand_is(Arg(k), N_obs)
       /\ HasEq(Arg(k))
       /\ parse_integer(ValueOf(Arg(k))).n # input_blocksize

\* --------------------------------------------------------------- C10
\* C10: from the end of resolver step 2 on (so when steps 6 to 8 divide, and
\* in every accepted plan) both block sizes are at least 1.
C10_BlockSizesPositive ==
  (InScanargs /\ AfterBlockSizes) =>
    input_blocksize >= 1 /\ output_blocksize >= 1

\* Step 6 about to divide skip by a block size that no operand gave.
C10_Witness ==
  /\ pc = "split" /\ proc = "running"
  /\ "O_SKIP_BYTES" \in input_flags /\ skip # 0
  /\ input_blocksize = DEFAULT_BLOCKSIZE
  /\ \A k \in Positions : ~operand_is(Arg(k), N_ibs) /\ ~operand_is(Arg(k), N_bs)

\* ------------------------------------------------- symbols of an operand
\* The symbols (comma-separated tokens) of the value of an operand.
SymbolsOf(str) ==
  LET toks == split_commas(ValueOf(str), <<>>)
  IN {toks[k] : k \in 1..Len(toks)}
\* Some operand of name pat has the symbol sym in its value.
Selected(pat, sym) ==
  \E k \in Positions :
    operand_is(Arg(k), pat) /\ HasEq(Arg(k)) /\ sym \in SymbolsOf(Arg(k))

Sym_ascii == <<"a", "s", "c", "i", "i">>
Sym_ebcdic == <<"e", "b", "c", "d", "i", "c">>
Sym_ibm == <<"i", "b", "m">>
Sym_block == <<"b", "l", "o", "c", "k">>
Sym_unblock == <<"u", "n", "b", "l", "o", "c", "k">>
Sym_lcase == <<"l", "c", "a", "s", "e">>
Sym_ucase == <<"u", "c", "a", "s", "e">>
Sym_swab == <<"s", "w", "a", "b">>
Sym_fullblock == <<"f", "u", "l", "l", "b", "l", "o", "c", "k">>
Sym_nocache == <<"n", "o", "c", "a", "c", "h", "e">>
Sym_skip_bytes == <<"s", "k", "i", "p", "_", "b", "y", "t", "e", "s">>
Sym_seek_bytes == <<"s", "e", "e", "k", "_", "b", "y", "t", "e", "s">>
Sym_count_bytes == <<"c", "o", "u", "n", "t", "_", "b", "y", "t", "e", "s">>

\* --------------------------------------------------------------- C11
\* The conversion symbols that carry the two-buffer bit.
TwoBufSymbols ==
  {Sym_ascii, Sym_ebcdic, Sym_ibm, Sym_block, Sym_unblock, Sym_lcase,
   Sym_ucase, Sym_swab}

\* C11: in an accepted plan the two-buffer bit is set exactly when the vector
\* has no bs= operand or a conv operand selects one of ascii, ebcdic, ibm,
\* block, unblock, lcase, ucase, swab.
C11_TwoBuffers ==
  (Accepted /\ InScanargs) =>
    ("C_TWOBUFS" \in conversions_mask
       <=> (BsOperands = {} \/ \E y \in TwoBufSymbols : Selected(N_conv, y)))

\* An accepted plan from a vector with bs= and a conv= of symbols that do
\* not carry the bit: the bit is unset.
C11_Witness ==
  /\ Accepted /\ InScanargs /\ BsOperands # {}
  /\ \E k \in Positions : operand_is(Arg(k), N_conv) /\ HasEq(Arg(k))
  /\ "C_TWOBUFS" \notin conversions_mask

\* --------------------------------------------------------------- C12
\* An ibs=, obs= or bs= operand whose value parses, its number and the
\* maximum of its field.
IsBlockSize(str) ==
  /\ operand_is(str, N_ibs) \/ operand_is(str, N_obs) \/ operand_is(str, N_bs)
  /\ HasEq(str)
  /\ parse_integer(ValueOf(str)).err = LONGINT_OK
NumberOf(str) == parse_integer(ValueOf(str)).n
BlockSizeMax(str) ==
  IF operand_is(str, N_obs) THEN MAX_BLOCKSIZE(OUTPUT_BLOCK_SLOP)
  ELSE MAX_BLOCKSIZE(INPUT_BLOCK_SLOP)

\* C12: when the operand pass has met an ibs=, obs= or bs= operand of value 0
\* the run is rejected there with "invalid number", and when it has met one
\* of a value above the field's maximum the run is rejected there as an
\* overflow (EOVERFLOW); one of a value in range is not rejected there.  The
\* block sizes of an accepted plan are within 1 and the maximum.
C12_BlockSizeRange ==
  /\ \A k \in Positions :
       (Met(k) /\ IsBlockSize(Arg(k))) =>
         IF NumberOf(Arg(k)) = 0
         THEN RejectedAt(k) /\ stderr[Len(stderr)] = D_number
         ELSE IF NumberOf(Arg(k)) > BlockSizeMax(Arg(k))
         THEN RejectedAt(k) /\ stderr[Len(stderr)] = D_overflow
         ELSE ~RejectedAt(k)
  /\ (Accepted /\ InScanargs) =>
       /\ 1 <= input_blocksize
       /\ input_blocksize <= MAX_BLOCKSIZE(INPUT_BLOCK_SLOP)
       /\ 1 <= output_blocksize
       /\ output_blocksize <= MAX_BLOCKSIZE(OUTPUT_BLOCK_SLOP)

\* A run rejected as an overflow at an ibs= whose value, already stored in
\* input_blocksize, is above the maximum.
C12_Witness ==
  \E k \in Positions :
    /\ Met(k) /\ IsBlockSize(Arg(k)) /\ operand_is(Arg(k), N_ibs)
    /\ NumberOf(Arg(k)) > BlockSizeMax(Arg(k))
    /\ RejectedAt(k)
    /\ input_blocksize = NumberOf(Arg(k))

\* --------------------------------------------------------------- C13
\* The number of the last operand of name pat, 0 when there is none.
OperandsOf(pat) == {k \in Positions : operand_is(Arg(k), pat) /\ HasEq(Arg(k))}
LastNumber(pat, none) ==
  IF OperandsOf(pat) = {} THEN none
  ELSE parse_integer(ValueOf(Arg(MaxOf(OperandsOf(pat))))).n

\* C13: in an accepted plan with skip=N, skip_records and skip_bytes are
\* N div B and N mod B (B the final input_blocksize) when iflag has
\* skip_bytes, and N and 0 otherwise; the same for seek=N with oflag's
\* seek_bytes and the final output_blocksize.
C13_SkipSeekSplit ==
  (Accepted /\ InScanargs) =>
    /\ OperandsOf(N_skip) # {} =>
         IF Selected(N_iflag, Sym_skip_bytes)
         THEN /\ skip_records = LastNumber(N_skip, 0) \div input_blocksize
              /\ skip_bytes = LastNumber(N_skip, 0) % input_blocksize
         ELSE skip_records = LastNumber(N_skip, 0) /\ skip_bytes = 0
    /\ OperandsOf(N_seek) # {} =>
         IF Selected(N_oflag, Sym_seek_bytes)
         THEN /\ seek_records = LastNumber(N_seek, 0) \div output_blocksize
              /\ seek_bytes = LastNumber(N_seek, 0) % output_blocksize
         ELSE seek_records = LastNumber(N_seek, 0) /\ seek_bytes = 0

\* An accepted plan whose skip was split into whole blocks and a rest.
C13_Witness ==
  /\ Accepted /\ InScanargs
  /\ OperandsOf(N_skip) # {} /\ Selected(N_iflag, Sym_skip_bytes)
  /\ skip_records > 0 /\ skip_bytes > 0

\* --------------------------------------------------------------- C14
\* C14: in an accepted plan with count=N, for every N that parse_integer
\* accepts (0 to UINTMAX_MAX), max_records and max_bytes are N div B and
\* N mod B (B the final input_blocksize) when iflag has count_bytes, and
\* max_records is N otherwise; without a count operand max_records keeps its
\* unlimited default.
C14_CountSplit ==
  (Accepted /\ InScanargs) =>
    IF OperandsOf(N_count) = {}
    THEN max_records = COUNT_UNSET /\ max_bytes = 0
    ELSE IF Selected(N_iflag, Sym_count_bytes)
    THEN /\ max_records = LastNumber(N_count, 0) \div input_blocksize
         /\ max_bytes = LastNumber(N_count, 0) % input_blocksize
    ELSE max_records = LastNumber(N_count, 0)

\* --------------------------------------------------------------- C15
\* C15: an accepted plan with conversion_blocksize = 0 has neither C_BLOCK
\* nor C_UNBLOCK in its mask, whether conv=block or conv=unblock was given or
\* ascii, ebcdic or ibm implied the bit; and no run with
\* conversion_blocksize = 0 writes "cannot combine block and unblock".
C15_NoCbsNoBlocking ==
  (InScanargs /\ conversion_blocksize = 0) =>
    /\ Accepted => conversions_mask \cap {"C_BLOCK", "C_UNBLOCK"} = {}
    /\ \A k \in 1..Len(stderr) : stderr[k] # D_block

\* An accepted plan without cbs from a vector that selects both block (given)
\* and unblock (implied by ascii).
C15_Witness ==
  /\ Accepted /\ InScanargs /\ conversion_blocksize = 0
  /\ Selected(N_conv, Sym_ascii) /\ Selected(N_conv, Sym_block)
  /\ "C_ASCII" \in conversions_mask

\* --------------------------------------------------------------- C16
AfterStrategy == pc \in {"exclusive", "nocache", "returned"}

\* C16: once steps 9 and 10 have run, and so in every accepted plan,
\* warn_partial_read is true exactly when the two-buffer bit is off, no iflag
\* operand gave fullblock (the flag as it was before step 10 cleared it), and
\* skip_records > 0, or 0 < max_records < the unset sentinel, or O_DIRECT is
\* among the input or the output flags.
C16_WarnPartialRead ==
  (InScanargs /\ AfterStrategy) =>
    (warn_partial_read
       <=> /\ "C_TWOBUFS" \notin conversions_mask
           /\ ~Selected(N_iflag, Sym_fullblock)
           /\ \/ skip_records > 0
              \/ (0 < max_records /\ max_records < COUNT_UNSET)
              \/ "O_DIRECT" \in (input_flags \cup output_flags))

\* An accepted plan with the warning on: bs given, records to skip.
C16_Witness ==
  /\ Accepted /\ InScanargs
  /\ warn_partial_read
  /\ BsOperands # {} /\ skip_records > 0

\* --------------------------------------------------------------- C17
\* C17: in an accepted plan iread_fnc is iread_fullblock exactly when an
\* iflag operand gave fullblock, i_nocache (o_nocache) is true exactly when
\* an iflag (oflag) operand gave nocache, and neither final flag set holds
\* the fullblock or the nocache bit.
C17_PseudoFlagsStripped ==
  (Accepted /\ InScanargs) =>
    /\ (iread_fnc = "iread_fullblock") <=> Selected(N_iflag, Sym_fullblock)
    /\ i_nocache <=> Selected(N_iflag, Sym_nocache)
    /\ o_nocache <=> Selected(N_oflag, Sym_nocache)
    /\ input_flags \cap {"O_FULLBLOCK", "O_NOCACHE"} = {}
    /\ output_flags \cap {"O_FULLBLOCK", "O_NOCACHE"} = {}

\* --------------------------------------------------------------- C18
\* The thirteen operand names.
OperandNames == LastWinsNames \cup AccumulatingNames
\* str starts with every byte of pattern, and the byte after that prefix is
\* the terminator or '='.
ExactName(str, pattern) ==
  /\ Len(str) >= Len(pattern)
  /\ SubSeq(str, 1, Len(pattern)) = pattern
  /\ Len(str) = Len(pattern) \/ str[Len(pattern) + 1] = "="

\* C18: operand_matches (str, pattern, '=') is true exactly on an exact name
\* match, for every argument of the vector and every one of the thirteen
\* names; a raw field other than its initial value was given by an operand
\* of exactly its name; and a run that has met an operand with '=' whose name
\* is none of the thirteen is rejected there, "unrecognized operand" its one
\* diagnostic.
C18_ExactNameMatch ==
  InScanargs =>
    /\ \A k \in Positions : \A pat \in OperandNames :
         operand_matches(Arg(k), pat, "=") <=> ExactName(Arg(k), pat)
    /\ input_file # <<"NULL">> => \E k \in Positions : Met(k) /\ NameOf(Arg(k)) = N_if
    /\ output_file # <<"NULL">> => \E k \in Positions : Met(k) /\ NameOf(Arg(k)) = N_of
    /\ blocksize # 0 => \E k \in Positions : Met(k) /\ NameOf(Arg(k)) = N_bs
    /\ conversion_blocksize # 0 =>
         \E k \in Positions : Met(k) /\ NameOf(Arg(k)) = N_cbs
    /\ skip # 0 => \E k \in Positions : Met(k) /\ NameOf(Arg(k)) = N_skip
    /\ seek # 0 => \E k \in Positions : Met(k) /\ NameOf(Arg(k)) = N_seek
    /\ count # COUNT_UNSET =>
         \E k \in Positions : Met(k) /\ NameOf(Arg(k)) = N_count
    /\ \A k \in Positions :
         (Met(k) /\ HasEq(Arg(k)) /\ NameOf(Arg(k)) \notin OperandNames) =>
           RejectedAt(k) /\ Diagnostics(stderr) = <<D_unrecognized>>

\* --------------------------------------------------------------- C19
\* The conv operands select a conversion that implies a record conversion
\* together with the opposite one.
ImpliedBlockConflict ==
  \/ Selected(N_conv, Sym_ascii) /\ Selected(N_conv, Sym_block)
  \/ Selected(N_conv, Sym_ebcdic) /\ Selected(N_conv, Sym_unblock)
  \/ Selected(N_conv, Sym_ibm) /\ Selected(N_conv, Sym_unblock)
\* The conv operands select ascii together with ebcdic or ibm.
AsciiConflict ==
  /\ Selected(N_conv, Sym_ascii)
  /\ Selected(N_conv, Sym_ebcdic) \/ Selected(N_conv, Sym_ibm)

\* C19: with a nonzero cbs no run gets past the exclusivity step when its
\* conv operands select ascii with block, ebcdic or ibm with unblock, or
\* ascii with ebcdic or ibm; a run that ends at the step on ascii with block
\* (or ebcdic or ibm with unblock) alone is rejected with "cannot combine
\* block and unblock"; with cbs absent (0) no run is rejected with that
\* diagnostic.
C19_ImpliedConversionsExclude ==
  InScanargs =>
    /\ (AfterExclusive /\ conversion_blocksize # 0) =>
         ~ImpliedBlockConflict /\ ~AsciiConflict
    /\ ( /\ pc = "exclusive" /\ proc # "running"
         /\ conversion_blocksize # 0
         /\ ImpliedBlockConflict
         /\ Cardinality(conversions_mask \cap {"C_ASCII", "C_EBCDIC", "C_IBM"}) <= 1 )
       => Rejected /\ stderr[Len(stderr)] = D_block
    /\ (pc = "exclusive" /\ proc # "running" /\ conversion_blocksize = 0) =>
         stderr[Len(stderr)] # D_block

\* A run with a nonzero cbs rejected for ascii (unblock implied) with block.
C19_Witness ==
  /\ InScanargs /\ Rejected /\ pc = "exclusive"
  /\ conversion_blocksize # 0
  /\ Selected(N_conv, Sym_ascii) /\ Selected(N_conv, Sym_block)
  /\ ~Selected(N_conv, Sym_unblock)
  /\ stderr[Len(stderr)] = D_block

====
